---- MODULE Spec2Model ----
(***************************************************************************)
(* EcoTrack backend: the estimation-and-ranking pipeline (InputAgent,      *)
(* CarbonEstimationAgent, RecommendationAgent, ExplanationAgent), the      *)
(* SupervisorAgent that sequences them, and the three HTTP handlers of     *)
(* main.py over the eco_analysis table.                                    *)
(*                                                                         *)
(* Python floats are modelled as exact rationals (reduced fractions), so   *)
(* equalities of the model are equalities of the real-number results; the  *)
(* energy source, whose case matters, is a sequence of one-character       *)
(* strings; an Optional[...] value is <<>> (None) or <<v>>.                *)
(***************************************************************************)
EXTENDS Integers, Sequences, FiniteSets, TLC

VARIABLES
    pc,               \* where the request being served stands
    endpoint,         \* the operation being served
    request,          \* the AnalyzeRequest being served
    credential,       \* the bearer token the handler was given
    user,             \* the user id the handler took from the token
    caller,           \* the <<user_id, access_token>> given to SupervisorAgent.analyze
    processed_data,   \* InputAgent.process output
    emissions,        \* CarbonEstimationAgent.calculate output
    recommendations,  \* RecommendationAgent.generate output
    previous_total,   \* SupervisorAgent._get_previous_total output
    explanation,      \* ExplanationAgent.generate output
    result,           \* the AnalyzeResponse SupervisorAgent.analyze returned
    response,         \* the status and body the handler answered with
    store,            \* the rows of the eco_analysis table, oldest first
    client,           \* ExplanationAgent.client is set
    collab,           \* what the collaborators did in this run
    steps             \* the steps and collaborator calls of this run, in order

reqVars == <<endpoint, request, credential, user, caller>>
runVars == <<processed_data, emissions, recommendations, previous_total,
             explanation, result>>
vars == <<pc, reqVars, runVars, response, store, client, collab, steps>>

-----------------------------------------------------------------------------
(* Rationals *)

Abs(i) == IF i < 0 THEN -i ELSE i

RECURSIVE GCD(_, _)
GCD(a, b) == IF b = 0 THEN a ELSE GCD(b, a % b)

\* The reduced fraction n/d, d # 0, with a positive denominator.
Frac(n, d) ==
    LET g == GCD(Abs(n), Abs(d))
        s == IF d < 0 THEN -1 ELSE 1
    IN  [n |-> s * (n \div g), d |-> s * (d \div g)]

F(i) == [n |-> i, d |-> 1]

FAdd(a, b) ==
    LET g == GCD(a.d, b.d)
    IN  Frac(a.n * (b.d \div g) + b.n * (a.d \div g), a.d * (b.d \div g))

FSub(a, b) == FAdd(a, [n |-> -b.n, d |-> b.d])
FMul(a, b) ==
    LET g1 == GCD(Abs(a.n), b.d)
        g2 == GCD(Abs(b.n), a.d)
        h1 == IF g1 = 0 THEN 1 ELSE g1
        h2 == IF g2 = 0 THEN 1 ELSE g2
    IN  Frac((a.n \div h1) * (b.n \div h2), (a.d \div h2) * (b.d \div h1))
FDiv(a, b) == FMul(a, Frac(b.d, b.n))
FLt(a, b) == a.n * b.d < b.n * a.d
FLe(a, b) == a.n * b.d <= b.n * a.d
FAbs(a) == [n |-> Abs(a.n), d |-> a.d]

\* Python's max(a, b) and min(a, b): the first argument unless the second is
\* strictly greater (smaller).
PyMax(a, b) == IF FLt(a, b) THEN b ELSE a
PyMin(a, b) == IF FLt(b, a) THEN b ELSE a

\* x scaled by 10^k (given as p) and rounded to an integer, a tie to the even
\* neighbour, the sign kept apart: round(x, k) and format(x, ".kf").
RoundHalfEven(x, p) ==
    LET n == Abs(x.n) * p
        q == n \div x.d
        r == n % x.d
    IN  IF 2 * r < x.d THEN q
        ELSE IF 2 * r > x.d THEN q + 1
        ELSE IF q % 2 = 0 THEN q ELSE q + 1

\* round(x, 2) as a rational.
round2(x) == Frac((IF x.n < 0 THEN -1 ELSE 1) * RoundHalfEven(x, 100), 100)

-----------------------------------------------------------------------------
(* Optional values and strings *)

None == <<>>
Some(v) == <<v>>

\* x or d, for a number: None and 0 are falsy.
OrNum(x, d) == IF x = None THEN d ELSE IF x[1] = 0 THEN d ELSE x[1]
\* x or d, for a string: None and "" are falsy.
OrStr(x, d) == IF x = None THEN d ELSE IF x[1] = <<>> THEN d ELSE x[1]

lowerChar(c) ==
    CASE c = "S" -> "s" [] c = "O" -> "o" [] c = "L" -> "l" [] c = "A" -> "a"
      [] c = "R" -> "r" [] c = "W" -> "w" [] c = "I" -> "i" [] c = "N" -> "n"
      [] c = "D" -> "d" [] c = "G" -> "g"
      [] OTHER -> c

\* str.lower()
lower(s) == [i \in DOMAIN s |-> lowerChar(s[i])]

-----------------------------------------------------------------------------
(* InputAgent *)

BALANCED_MEAT == Frac(3333, 100)
BALANCED_VEGETARIAN == Frac(3333, 100)
BALANCED_VEGAN == Frac(3334, 100)
DEFAULT_MEALS == 21
DEFAULT_SOURCE == <<"g", "r", "i", "d">>

\* The clamp without its upper bound.
clampPctNoCeiling(raw) == PyMax(F(0), F(OrNum(raw, 0)))

\* max(0.0, min(100.0, raw or 0.0))
clampPct(raw) == PyMax(F(0), PyMin(F(100), F(OrNum(raw, 0))))

\* "meals_per_week": max(0, request.diet.meals_per_week or 21)
mealsPerWeek(raw) == PyMax(F(0), F(OrNum(raw, DEFAULT_MEALS)))

\* The diet block with the zero-sum split "corrected" to equal thirds.
normalizeDietEqualThirds(diet) ==
    LET meat == clampPct(diet.meat_percentage)
        vegetarian == clampPct(diet.vegetarian_percentage)
        vegan == clampPct(diet.vegan_percentage)
        total_percentage == FAdd(FAdd(meat, vegetarian), vegan)
        scale == FDiv(F(100), total_percentage)
    IN  IF FLt(F(0), total_percentage)
        THEN [meals_per_week |-> mealsPerWeek(diet.meals_per_week),
              meat_percentage |-> FMul(meat, scale),
              vegetarian_percentage |-> FMul(vegetarian, scale),
              vegan_percentage |-> FMul(vegan, scale)]
        ELSE [meals_per_week |-> mealsPerWeek(diet.meals_per_week),
              meat_percentage |-> Frac(100, 3),
              vegetarian_percentage |-> Frac(100, 3),
              vegan_percentage |-> Frac(100, 3)]

\* The diet block and the rescaling of its three percentages.
normalizeDiet(diet) ==
    LET meat == clampPct(diet.meat_percentage)
        vegetarian == clampPct(diet.vegetarian_percentage)
        vegan == clampPct(diet.vegan_percentage)
        total_percentage == FAdd(FAdd(meat, vegetarian), vegan)
        scale == FDiv(F(100), total_percentage)
    IN  IF FLt(F(0), total_percentage)
        THEN [meals_per_week |-> mealsPerWeek(diet.meals_per_week),
              meat_percentage |-> FMul(meat, scale),
              vegetarian_percentage |-> FMul(vegetarian, scale),
              vegan_percentage |-> FMul(vegan, scale)]
        ELSE [meals_per_week |-> mealsPerWeek(diet.meals_per_week),
              meat_percentage |-> BALANCED_MEAT,
              vegetarian_percentage |-> BALANCED_VEGETARIAN,
              vegan_percentage |-> BALANCED_VEGAN]

\* The default without the floor.
floorMissing(raw) == F(OrNum(raw, 0))

\* max(0.0, raw or 0.0)
floorAtZero(raw) == PyMax(F(0), F(OrNum(raw, 0)))

\* (request.electricity.energy_source or "grid").lower()
normalizeSource(raw) == lower(OrStr(raw, DEFAULT_SOURCE))

InputAgent_process(req) ==
    [transport |->
        [car_miles_per_week |-> floorAtZero(req.transport.car_miles_per_week),
         public_transit_trips_per_week |->
             floorAtZero(req.transport.public_transit_trips_per_week),
         flights_per_year |-> floorAtZero(req.transport.flights_per_year)],
     electricity |->
        [monthly_kwh |-> floorAtZero(req.electricity.monthly_kwh),
         energy_source |-> normalizeSource(req.electricity.energy_source)],
     diet |-> normalizeDiet(req.diet)]

-----------------------------------------------------------------------------
(* CarbonEstimationAgent *)

CAR_EMISSION_FACTOR == Frac(411, 1000)
PUBLIC_TRANSIT_FACTOR == Frac(5, 100)
FLIGHT_FACTOR == F(250)
GRID_ELECTRICITY_FACTOR == Frac(5, 10)
SOLAR_FACTOR == Frac(5, 100)
WIND_FACTOR == Frac(2, 100)
MEAT_MEAL_FACTOR == F(5)
VEGETARIAN_MEAL_FACTOR == F(2)
VEGAN_MEAL_FACTOR == F(1)
WEEKS_PER_YEAR == 52
MONTHS_PER_YEAR == 12

_calculate_transport(transport_data) ==
    LET car_emissions ==
            FMul(FMul(transport_data.car_miles_per_week, F(WEEKS_PER_YEAR)),
                 CAR_EMISSION_FACTOR)
        transit_emissions ==
            FMul(FMul(transport_data.public_transit_trips_per_week,
                      F(WEEKS_PER_YEAR)), PUBLIC_TRANSIT_FACTOR)
        flight_emissions == FMul(transport_data.flights_per_year, FLIGHT_FACTOR)
    IN  FAdd(FAdd(car_emissions, transit_emissions), flight_emissions)

\* The wind branch with the solar factor pasted in.
sourceFactorWindAsSolar(source) ==
    LET energy_source == lower(source)
    IN  IF energy_source = <<"s", "o", "l", "a", "r">> THEN SOLAR_FACTOR
        ELSE IF energy_source = <<"w", "i", "n", "d">> THEN SOLAR_FACTOR
        ELSE GRID_ELECTRICITY_FACTOR

\* The factor chosen for an energy source string.
sourceFactor(source) ==
    LET energy_source == lower(source)
    IN  IF energy_source = <<"s", "o", "l", "a", "r">> THEN SOLAR_FACTOR
        ELSE IF energy_source = <<"w", "i", "n", "d">> THEN WIND_FACTOR
        ELSE GRID_ELECTRICITY_FACTOR

_calculate_electricity(electricity_data) ==
    FMul(FMul(electricity_data.monthly_kwh, F(MONTHS_PER_YEAR)),
         sourceFactor(electricity_data.energy_source))

_calculate_diet(diet_data) ==
    LET meals_per_week == diet_data.meals_per_week
        meat_pct == FDiv(diet_data.meat_percentage, F(100))
        vegetarian_pct == FDiv(diet_data.vegetarian_percentage, F(100))
        vegan_pct == FDiv(diet_data.vegan_percentage, F(100))
        meat_meals == FMul(meals_per_week, meat_pct)
        vegetarian_meals == FMul(meals_per_week, vegetarian_pct)
        vegan_meals == FMul(meals_per_week, vegan_pct)
        weekly_emissions ==
            FAdd(FAdd(FMul(meat_meals, MEAT_MEAL_FACTOR),
                      FMul(vegetarian_meals, VEGETARIAN_MEAL_FACTOR)),
                 FMul(vegan_meals, VEGAN_MEAL_FACTOR))
    IN  FMul(weekly_emissions, F(WEEKS_PER_YEAR))

\* The total of the three category emissions.
sumEmissions(t, e, d) == FAdd(FAdd(t, e), d)

\* The emissions dict, as the list of its (key, value) items in insertion order.
CarbonEstimationAgent_calculate(pd) ==
    LET transport_emissions == _calculate_transport(pd.transport)
        electricity_emissions == _calculate_electricity(pd.electricity)
        diet_emissions == _calculate_diet(pd.diet)
        total_emissions ==
            sumEmissions(transport_emissions, electricity_emissions, diet_emissions)
    IN  << <<"transport", transport_emissions>>,
           <<"electricity", electricity_emissions>>,
           <<"diet", diet_emissions>>,
           <<"total", total_emissions>> >>

\* emissions[key]
Get(items, key) == (CHOOSE i \in 1..Len(items) : items[i][1] = key)
GetValue(items, key) == items[Get(items, key)][2]

-----------------------------------------------------------------------------
(* sorted(items, key=lambda x: x[1], reverse=True) *)

\* x placed after every element of the sorted list whose value is >= its own:
\* equal values keep the order in which they were given.
RECURSIVE insertDesc(_, _)
insertDesc(x, sortedItems) ==
    IF sortedItems = <<>> THEN <<x>>
    ELSE IF FLt(Head(sortedItems)[2], x[2])
         THEN <<x>> \o sortedItems
         ELSE <<Head(sortedItems)>> \o insertDesc(x, Tail(sortedItems))

RECURSIVE sortFrom(_, _)
sortFrom(items, acc) ==
    IF items = <<>> THEN acc
    ELSE sortFrom(Tail(items), insertDesc(Head(items), acc))

\* An ascending stable sort, reversed: equal values come out in reverse order.
sortedDescReversedTies(items) ==
    LET RECURSIVE insertAsc(_, _)
        insertAsc(x, s) ==
            IF s = <<>> THEN <<x>>
            ELSE IF FLt(x[2], Head(s)[2]) THEN <<x>> \o s
                 ELSE <<Head(s)>> \o insertAsc(x, Tail(s))
        RECURSIVE asc(_, _)
        asc(it, acc) ==
            IF it = <<>> THEN acc ELSE asc(Tail(it), insertAsc(Head(it), acc))
        a == asc(items, <<>>)
    IN  [i \in 1..Len(a) |-> a[Len(a) + 1 - i]]

sortedDesc(items) == sortFrom(items, <<>>)

-----------------------------------------------------------------------------
(* RecommendationAgent *)

Categories == <<"transport", "electricity", "diet">>

templates ==
    [transport |->
        << <<"Reduce car usage",
             "Use public transport, carpool, or walk when possible.">>,
           <<"Limit flights",
             "Reduce air travel or choose lower-emission alternatives.">> >>,
     electricity |->
        << <<"Reduce electricity usage",
             "Turn off unused appliances and use energy-efficient devices.">>,
           <<"Switch to renewable energy",
             "Consider solar or green electricity providers.">> >>,
     diet |->
        << <<"Reduce meat consumption",
             "Replace some meat meals with plant-based alternatives.">>,
           <<"Choose local foods",
             "Eat locally sourced and seasonal foods to reduce emissions.">> >>]

SAVINGS_FRACTION == Frac(15, 100)
TOP_N == 3

\* The three (category, value) pairs of the emissions dict, in declaration order.
categoryPairs(em) ==
    [i \in 1..Len(Categories) |-> <<Categories[i], GetValue(em, Categories[i])>>]

\* The Recommendation records of one ranked category, in template order.
recommendationsOf(pair) ==
    [j \in 1..Len(templates[pair[1]]) |->
        [title |-> templates[pair[1]][j][1],
         description |-> templates[pair[1]][j][2],
         potential_savings |-> round2(FMul(pair[2], SAVINGS_FRACTION)),
         category |-> pair[1]]]

RECURSIVE flatten(_)
flatten(ss) == IF ss = <<>> THEN <<>> ELSE Head(ss) \o flatten(Tail(ss))

\* list[:n]
Take(s, n) == SubSeq(s, 1, IF Len(s) < n THEN Len(s) ELSE n)

RecommendationAgent_generate(pd, em) ==
    LET sorted_categories == sortedDesc(categoryPairs(em))
        all == flatten([i \in 1..Len(sorted_categories) |->
                           recommendationsOf(sorted_categories[i])])
    IN  Take(all, TOP_N)

-----------------------------------------------------------------------------
(* ExplanationAgent *)

\* A text is a sequence of tokens: a literal piece, or a formatted number
\* (its digits as an integer count of tenths).
Lit(t) == [s |-> t, n |-> 0]
\* f"{x:.1f}"
Fmt1(x) == [s |-> IF x.n < 0 THEN "-%.1f" ELSE "%.1f", n |-> RoundHalfEven(x, 10)]
\* f"{x:+.1f}"
FmtSigned1(x) == [s |-> IF x.n < 0 THEN "-%.1f" ELSE "+%.1f", n |-> RoundHalfEven(x, 10)]

IsSpace(tok) == tok.s \in {" ", "\n"} /\ tok.n = 0

\* str.strip()
RECURSIVE lstrip(_)
lstrip(t) == IF t # <<>> /\ IsSpace(Head(t)) THEN lstrip(Tail(t)) ELSE t
RECURSIVE rstrip(_)
rstrip(t) ==
    IF t # <<>> /\ IsSpace(t[Len(t)]) THEN rstrip(SubSeq(t, 1, Len(t) - 1)) ELSE t
strip(t) == rstrip(lstrip(t))

\* key in text
Contains(text, key) == \E i \in 1..Len(text) : text[i] = Lit(key)

REQUIRED_HEADERS ==
    {"Introduction:", "Emission Breakdown:", "Recommendations:", "Conclusion:"}

\* if previous_total: None and 0.0 are falsy.
Truthy(previous) == previous # None /\ previous[1].n # 0

\* The history_line of the fallback: empty unless previous_total is truthy.
historyLine(total, previous) ==
    IF Truthy(previous)
    THEN << Lit(" Compared to your previous footprint of "), Fmt1(previous[1]),
            Lit(" kg CO2, this is a change of "),
            FmtSigned1(FSub(total, previous[1])), Lit(" kg.") >>
    ELSE <<>>

\* The (key, value) items the fallback ranks: emissions.items().
fallbackItems(em) == em

_fallback_explanation(em, total, recs, previous) ==
    LET sorted_categories == sortedDesc(fallbackItems(em))
        largest_category == sorted_categories[1][1]
        rec_lines ==
            flatten([i \in 1..Len(recs) |->
                << Lit("- "), Lit(recs[i].title),
                   Lit(": Focus on small habit changes that reduce emissions in this area.") >>])
    IN  strip(
          << Lit("\n"), Lit("Introduction:"),
             Lit("Your annual carbon footprint is approximately "), Fmt1(total),
             Lit(" kg CO2.") >>
          \o historyLine(total, previous)
          \o << Lit("Emission Breakdown:"),
                Lit("The largest contribution comes from "), Lit(largest_category),
                Lit(", making it the most impactful area to improve."),
                Lit("Reducing emissions here can significantly lower your overall footprint.") >>
          \o << Lit("Recommendations:") >> \o rec_lines
          \o << Lit("Conclusion:"),
                Lit("Small, consistent actions can make a meaningful difference over time."),
                Lit("\n") >>)

\* What the completion call does: it raises, or it returns a message whose
\* content is None or a text.
LlmRaises == [raised |-> TRUE, content |-> None]
LlmContent(c) == [raised |-> FALSE, content |-> c]

\* The text of the try block, when it returns one: content.strip() with all
\* four headers in it. content None makes .strip() raise.
llmAccepted(llm) ==
    /\ ~llm.raised
    /\ llm.content # None
    /\ \A key \in REQUIRED_HEADERS : Contains(strip(llm.content[1]), key)

ExplanationAgent_generate(hasClient, em, total, recs, previous, llm) ==
    IF hasClient /\ llmAccepted(llm)
    THEN strip(llm.content[1])
    ELSE _fallback_explanation(em, total, recs, previous)

----------------------------------------------------------------------------------------------------------------------------------------------------------
(* Requests *)

GRID == <<"g", "r", "i", "d">>
SOLAR == <<"s", "o", "l", "a", "r">>
WIND == <<"w", "i", "n", "d">>

Req(car, transit, flights, kwh, source, meals, meat, vegetarian, vegan) ==
    [transport |-> [car_miles_per_week |-> car,
                    public_transit_trips_per_week |-> transit,
                    flights_per_year |-> flights],
     electricity |-> [monthly_kwh |-> kwh, energy_source |-> source],
     diet |-> [meals_per_week |-> meals,
               meat_percentage |-> meat,
               vegetarian_percentage |-> vegetarian,
               vegan_percentage |-> vegan]]

\* The values a field is drawn from: None (null), negative, zero, in range
\* and out of range.
PctVals == {None, Some(-10), Some(0), Some(25), Some(100), Some(150)}
MealVals == {None, Some(-3), Some(0), Some(7), Some(21)}
KwhVals == {None, Some(-100), Some(0), Some(13), Some(1000)}
SourceVals ==
    {None, Some(<<>>), Some(GRID), Some(SOLAR), Some(<<"S", "o", "l", "a", "r">>),
     Some(<<"S", "O", "L", "A", "R">>), Some(WIND), Some(<<"W", "i", "n", "d">>),
     Some(<<"w", "i", "n", "d", "y">>), Some(<<"s", "o", "l", "a", "r", " ">>),
     Some(<<"u", "n", "k", "n", "o", "w", "n", "-", "s", "o", "u", "r", "c", "e">>)}
CarVals == {None, Some(-5), Some(0), Some(100)}
TransitVals == {None, Some(-2), Some(0), Some(30)}
FlightVals == {None, Some(-1), Some(0), Some(2)}

\* Requests that vary one group of fields, the others at the schema defaults,
\* and requests that mix the groups.
DietRequests ==
    {Req(Some(0), Some(0), Some(0), Some(0), Some(GRID), m, a, b, c) :
        m \in MealVals, a \in PctVals, b \in PctVals, c \in PctVals}
ElectricityRequests ==
    {Req(Some(0), Some(0), Some(0), k, s, Some(21), Some(0), Some(0), Some(0)) :
        k \in KwhVals, s \in SourceVals}
TransportRequests ==
    {Req(c, t, f, Some(0), Some(GRID), m, Some(0), Some(0), Some(0)) :
        c \in CarVals, t \in TransitVals, f \in FlightVals, m \in {Some(21), Some(-3)}}
MixedRequests ==
    {Req(c, t, Some(0), k, s, m, a, Some(0), v) :
        c \in {Some(-5), Some(100)}, t \in {None, Some(30)},
        k \in {Some(13), Some(1000)}, s \in {None, Some(SOLAR)},
        m \in {Some(-3), Some(3)}, a \in {None, Some(150)}, v \in {Some(0), Some(100)}}
CoreRequests ==
    DietRequests \cup ElectricityRequests \cup TransportRequests \cup MixedRequests

\* Scenario A of the specification.
ScenarioA ==
    Req(Some(100), Some(0), Some(0), Some(0), Some(GRID), Some(21),
        Some(0), Some(0), Some(0))

Unset == <<>>

-----------------------------------------------------------------------------
(* Tokens and the eco_analysis table *)

\* A call's outcome: the value it returns, or an exception that leaves it.
Returns(v) == [raised |-> FALSE, value |-> v]
Raises == [raised |-> TRUE, value |-> None]

\* not x: None and "" are falsy.
Missing(x) == x = None \/ x[1] = ""

\* jwt.decode(token, options={"verify_signature": False}) on the tokens used
\* here: a payload with a sub, a payload without one, or a decode error.
jwt_decode(token) ==
    CASE token = "tokenA" -> Returns([sub |-> Some("userA")])
      [] token = "tokenB" -> Returns([sub |-> Some("userB")])
      [] token = "tokenNoSub" -> Returns([sub |-> None])
      [] OTHER -> Raises

HttpError(code) == [raised |-> TRUE, status |-> code, value |-> None]

\* Both failures leave as HTTPException(401): the one raised inside the try
\* is caught by its own except clause and raised again.
get_user_id_from_token(token) ==
    LET payload == jwt_decode(token)
    IN  IF payload.raised THEN HttpError(401)
        ELSE IF Missing(payload.value.sub) THEN HttpError(401)
        ELSE [raised |-> FALSE, status |-> 200, value |-> payload.value.sub]

\* The rows a client created with this token can see (row-level security):
\* those of the token's user.
visibleRows(rows, token) ==
    LET payload == jwt_decode(token)
    IN  IF payload.raised THEN <<>>
        ELSE IF Missing(payload.value.sub) THEN <<>>
        ELSE SelectSeq(rows, LAMBDA r : r.user_id = payload.value.sub[1])

\* BaseModel.model_dump(): the dict of the model's fields.
model_dump(m) == m

\* The row built from the response as analyze returned it, before the user
\* id is put in.
persistedRowWithoutUser(rows, user_id, req, resp) ==
    [user_id |-> user_id,
     input_data |-> model_dump(req),
     ai_output |-> model_dump([resp EXCEPT !.user_id = None]),
     created_at |-> Len(rows) + 1]

\* The row /calculate inserts; created_at is set by the table.
persistedRow(rows, user_id, req, resp) ==
    [user_id |-> user_id,
     input_data |-> model_dump(req),
     ai_output |-> model_dump(resp),
     created_at |-> Len(rows) + 1]

\* An insert that lands twice.
insertTwice(rows, row) == Append(Append(rows, row), row)

\* table("eco_analysis").insert(row).execute(), when it succeeds: the table
\* has one more row.
insert(rows, row) == Append(rows, row)

\* order("created_at", desc=True)
RECURSIVE newestFirst(_)
newestFirst(rows) ==
    IF rows = <<>> THEN <<>>
    ELSE <<rows[Len(rows)]>> \o newestFirst(SubSeq(rows, 1, Len(rows) - 1))

-----------------------------------------------------------------------------
(* SupervisorAgent *)

\* The rows the query returns: those of user_id, newest first, at most one.
latestRow(rows, uid) ==
    LET mine == SelectSeq(rows, LAMBDA r : r.user_id = uid)
    IN  IF mine = <<>> THEN <<>> ELSE << mine[Len(mine)] >>

\* The lookup without its try/except: the store's exception leaves it.
_get_previous_total_uncaught(rows, user_id, access_token, hist) ==
    IF Missing(user_id) \/ Missing(access_token) THEN Returns(None)
    ELSE IF hist = "exception" THEN Raises
    ELSE LET data == latestRow(visibleRows(rows, access_token[1]), user_id[1])
         IN  IF data # <<>>
             THEN Returns(Some(data[1].ai_output.total_carbon_footprint))
             ELSE Returns(None)

\* hist is what the store does when asked: "ok" or "exception"; the except
\* clause turns the exception into None.
_get_previous_total(rows, user_id, access_token, hist) ==
    IF Missing(user_id) \/ Missing(access_token) THEN Returns(None)
    ELSE IF hist = "exception" THEN Returns(None)
    ELSE LET data == latestRow(visibleRows(rows, access_token[1]), user_id[1])
         IN  IF data # <<>>
             THEN Returns(Some(data[1].ai_output.total_carbon_footprint))
             ELSE Returns(None)

\* The AnalyzeResponse built at the end of analyze: the total, the emissions
\* without the "total" key, the recommendations, the text and the user id.
AnalyzeResponse(em, total_emissions, recs, text, user_id) ==
    [total_carbon_footprint |-> total_emissions,
     category_emissions |-> SelectSeq(em, LAMBDA kv : kv[1] # "total"),
     top_recommendations |-> recs,
     explanation |-> text,
     user_id |-> user_id]

\* Whether this run asks the store for the user's history.
Lookup == ~Missing(caller[1]) /\ ~Missing(caller[2])

\* What the store may do when asked: nothing is asked without a user and a
\* token, and a token that does not decode is refused.
HistOutcomes ==
    IF ~Lookup THEN {"none"}
    ELSE IF jwt_decode(caller[2][1]).raised THEN {"exception"}
    ELSE {"ok", "exception"}

\* Step 1: processed_data = self.input_agent.process(request)
normalize_input ==
    /\ pc = "start"
    /\ processed_data' = InputAgent_process(request)
    /\ pc' = "processed"
    /\ steps' = Append(steps, "normalize")
    /\ UNCHANGED <<reqVars, emissions, recommendations, previous_total,
                   explanation, result, response, store, client, collab>>

\* Step 2: emissions = self.carbon_agent.calculate(processed_data)
estimate_emissions ==
    /\ pc = "processed"
    /\ emissions' = CarbonEstimationAgent_calculate(processed_data)
    /\ pc' = "estimated"
    /\ steps' = Append(steps, "estimate")
    /\ UNCHANGED <<reqVars, processed_data, recommendations, previous_total,
                   explanation, result, response, store, client, collab>>

\* Step 3: recommendations = self.recommendation_agent.generate(...)
generate_recommendations ==
    /\ pc = "estimated"
    /\ recommendations' = RecommendationAgent_generate(processed_data, emissions)
    /\ pc' = "recommended"
    /\ steps' = Append(steps, "recommend")
    /\ UNCHANGED <<reqVars, processed_data, emissions, previous_total,
                   explanation, result, response, store, client, collab>>

\* Step 4: previous_total = self._get_previous_total(user_id, access_token)
fetch_previous_total ==
    /\ pc = "recommended"
    /\ \E hist \in HistOutcomes :
        \E fetched \in {_get_previous_total(store, caller[1], caller[2], hist)} :
            /\ previous_total' = fetched.value
            /\ pc' = IF fetched.raised THEN "raised" ELSE "fetched"
            /\ collab' = [collab EXCEPT !.hist = hist]
    /\ steps' = steps \o <<"previous_total">>
                      \o (IF Lookup THEN <<"history_fetch">> ELSE <<>>)
    /\ UNCHANGED <<reqVars, processed_data, emissions, recommendations,
                   explanation, result, response, store, client>>

\* Texts the completion call may return.
WellFormedText ==
    << Lit(" "), Lit("Introduction:"), Lit("You are doing well."),
       Lit("Emission Breakdown:"), Lit("Diet contributes the most."),
       Lit("Recommendations:"), Lit("Eat less meat."),
       Lit("Conclusion:"), Lit("Keep going."), Lit("\n") >>
\* Two of the four headers only.
PartialText == << Lit("Introduction:"), Lit("Keep going."), Lit("Conclusion:") >>
LlmTexts == { <<>>, PartialText, WellFormedText }
LlmOutcomes == {LlmRaises, LlmContent(None)} \cup {LlmContent(Some(t)) : t \in LlmTexts}

\* A generate that calls the completion a second time after a failure.
explanationCallsWithRetry(hasClient, llm) ==
    <<"explanation">>
        \o (IF hasClient THEN <<"llm_call">> ELSE <<>>)
        \o (IF hasClient /\ llmAccepted(llm) THEN <<>>
            ELSE IF hasClient THEN <<"llm_call", "fallback">>
            ELSE <<"fallback">>)

\* What ExplanationAgent.generate does, in order: one completion call if
\* there is a client, then the fallback unless the text was accepted.
explanationCalls(hasClient, llm) ==
    <<"explanation">>
        \o (IF hasClient THEN <<"llm_call">> ELSE <<>>)
        \o (IF hasClient /\ llmAccepted(llm) THEN <<>> ELSE <<"fallback">>)

\* Step 5: explanation = self.explanation_agent.generate(...). With no client
\* there is no call, hence no outcome to choose.
generate_explanation ==
    /\ pc = "fetched"
    /\ \E llm \in (IF client THEN LlmOutcomes ELSE {LlmRaises}) :
        /\ explanation' =
              ExplanationAgent_generate(client, emissions,
                                        GetValue(emissions, "total"),
                                        recommendations, previous_total, llm)
        /\ collab' = [collab EXCEPT !.llm_called = client, !.llm = llm]
        /\ steps' = steps \o explanationCalls(client, llm)
    /\ pc' = "explained"
    /\ UNCHANGED <<reqVars, processed_data, emissions, recommendations,
                   previous_total, result, response, store, client>>

\* return AnalyzeResponse(...)
return_response ==
    /\ pc = "explained"
    /\ result' = Some(AnalyzeResponse(emissions, GetValue(emissions, "total"),
                                      recommendations, explanation, caller[1]))
    /\ pc' = "returned"
    /\ steps' = Append(steps, "return")
    /\ UNCHANGED <<reqVars, processed_data, emissions, recommendations,
                   previous_total, explanation, response, store, client, collab>>

-----------------------------------------------------------------------------
(* main.py: the handlers *)

MaxStore == 2

Tokens == {"tokenA", "tokenB", "tokenNoSub", "garbage"}

\* The (user_id, access_token) pairs analyze is called with directly.
Callers ==
    { <<None, None>>, <<Some("userA"), None>>,
      <<Some("userA"), Some("tokenA")>>, <<Some("userB"), Some("tokenB")>> }

\* The requests sent to the handlers: Scenario A, a request whose footprint is
\* zero, and one with null, negative and out-of-range fields.
ZeroRequest ==
    Req(Some(0), Some(0), Some(0), Some(0), Some(GRID), Some(-3),
        Some(0), Some(0), Some(0))
RawRequest ==
    Req(Some(-5), None, Some(2), Some(1000), Some(<<"S", "o", "l", "a", "r">>),
        None, Some(150), Some(-10), Some(25))
ApiRequests == {ScenarioA, ZeroRequest, RawRequest}

NoCollab == [hist |-> "none", llm_called |-> FALSE, llm |-> LlmRaises,
             insert |-> "none"]

\* No request is being served.
Idle ==
    /\ pc = "idle"
    /\ endpoint = "none"
    /\ request = Unset
    /\ credential = None
    /\ user = None
    /\ caller = <<None, None>>
    /\ processed_data = Unset
    /\ emissions = Unset
    /\ recommendations = Unset
    /\ previous_total = None
    /\ explanation = Unset
    /\ result = None
    /\ response = Unset
    /\ collab = NoCollab
    /\ steps = <<>>

Init ==
    /\ Idle
    /\ store = <<>>
    /\ client \in BOOLEAN

\* A call that hands the user id and the token on to analyze.
analyzeArgsWithUser(user_id, access_token) == <<user_id, access_token>>

\* supervisor.analyze(request): the optional user_id and access_token are
\* left at None, whatever the handler holds.
analyzeArgs(user_id, access_token) == <<None, None>>

\* A request arrives: nothing has been computed for it yet.
Arrives(ep, req, tok, uid, who) ==
    /\ endpoint' = ep
    /\ request' = req
    /\ credential' = tok
    /\ user' = uid
    /\ caller' = who
    /\ UNCHANGED <<runVars, response, store, client, collab, steps>>

\* SupervisorAgent.analyze called directly, with or without a user and token.
supervisor_analyze ==
    \E req \in ApiRequests, who \in Callers :
        /\ pc = "idle"
        /\ pc' = "start"
        /\ Arrives("supervisor", req, None, None, who)

\* POST /analyze: supervisor.analyze(request)
analyze ==
    \E req \in ApiRequests :
        /\ pc = "idle"
        /\ pc' = "start"
        /\ Arrives("analyze", req, None, None, analyzeArgs(None, None))

\* The handler's return, or its except clause when analyze raised.
analyze_return ==
    /\ pc \in {"returned", "raised"}
    /\ endpoint \in {"analyze", "supervisor"}
    /\ response' = IF pc = "raised" THEN [status |-> 500, body |-> None]
                   ELSE [status |-> 200, body |-> result]
    /\ pc' = "done"
    /\ UNCHANGED <<reqVars, runVars, store, client, collab, steps>>

\* POST /calculate, up to supervisor.analyze(request): the user id is taken
\* from the token, and a failure there is answered by the except clause.
calculate ==
    \E req \in ApiRequests, token \in Tokens :
        LET decoded == get_user_id_from_token(token)
        IN  /\ pc = "idle"
            /\ Len(store) < MaxStore
            /\ IF decoded.raised
               THEN /\ pc' = "done"
                    /\ endpoint' = "calculate"
                    /\ request' = req
                    /\ credential' = Some(token)
                    /\ user' = None
                    /\ caller' = <<None, None>>
                    /\ response' = [status |-> 500, body |-> None]
                    /\ UNCHANGED <<runVars, store, client, collab, steps>>
               ELSE /\ pc' = "start"
                    /\ Arrives("calculate", req, Some(token), decoded.value,
                               analyzeArgs(decoded.value, Some(token)))

\* POST /calculate, after supervisor.analyze(request): the user id is put in
\* the response and the row is inserted; ins is what the store does.
calculate_persist ==
    /\ pc \in {"returned", "raised"}
    /\ endpoint = "calculate"
    /\ \E ins \in (IF pc = "raised" THEN {"none"} ELSE {"ok", "exception"}) :
        /\ collab' = [collab EXCEPT !.insert = ins]
        /\ IF ins = "ok"
           THEN \E resp \in {[result[1] EXCEPT !.user_id = user]} :
                /\ store' = insert(store, persistedRow(store, user[1], request, resp))
                /\ response' = [status |-> 200, body |-> Some(resp)]
           ELSE /\ response' = [status |-> 500, body |-> None]
                /\ UNCHANGED store
    /\ pc' = "done"
    /\ UNCHANGED <<reqVars, runVars, client, steps>>

\* GET /history
get_history ==
    \E token \in Tokens, sel \in {"ok", "exception"} :
        /\ pc = "idle"
        /\ pc' = "done"
        /\ endpoint' = "history"
        /\ credential' = Some(token)
        /\ collab' = [collab EXCEPT !.hist = sel]
        /\ response' =
              IF sel = "exception" \/ jwt_decode(token).raised
              THEN [status |-> 500, body |-> None]
              ELSE [status |-> 200,
                    body |-> Some(newestFirst(visibleRows(store, token)))]
        /\ UNCHANGED <<request, user, caller, runVars, store, client, steps>>

\* The response is sent and the request's values are dropped; the server
\* waits for the next request.
respond ==
    /\ pc = "done"
    /\ pc' = "idle"
    /\ endpoint' = "none"
    /\ request' = Unset
    /\ credential' = None
    /\ user' = None
    /\ caller' = <<None, None>>
    /\ processed_data' = Unset
    /\ emissions' = Unset
    /\ recommendations' = Unset
    /\ previous_total' = None
    /\ explanation' = Unset
    /\ result' = None
    /\ response' = Unset
    /\ collab' = NoCollab
    /\ steps' = <<>>
    /\ UNCHANGED <<store, client>>

Next ==
    \/ supervisor_analyze \/ analyze \/ calculate \/ get_history
    \/ normalize_input \/ estimate_emissions \/ generate_recommendations
    \/ fetch_previous_total \/ generate_explanation \/ return_response
    \/ analyze_return \/ calculate_persist \/ respond

Spec == Init /\ [][Next]_vars

-----------------------------------------------------------------------------
(* One run of SupervisorAgent.analyze, with no user and no client, over     *)
(* CoreRequests                                                             *)

InitCore ==
    /\ pc = "start"
    /\ endpoint = "supervisor"
    /\ request \in CoreRequests
    /\ credential = None
    /\ user = None
    /\ caller = <<None, None>>
    /\ processed_data = Unset
    /\ emissions = Unset
    /\ recommendations = Unset
    /\ previous_total = None
    /\ explanation = Unset
    /\ result = None
    /\ response = Unset
    /\ store = <<>>
    /\ client = FALSE
    /\ collab = NoCollab
    /\ steps = <<>>

NextCore ==
    \/ normalize_input \/ estimate_emissions \/ generate_recommendations
    \/ fetch_previous_total \/ generate_explanation \/ return_response
    \/ analyze_return

SpecCore == InitCore /\ [][NextCore]_vars

-----------------------------------------------------------------------------
(* The Recommender over CategoryEmissions given directly *)

EmissionVals == {F(0), F(78), F(600), Frac(21372, 10), F(5460)}

InitRecommender ==
    /\ pc = "estimated"
    /\ endpoint = "supervisor"
    /\ request = Unset
    /\ credential = None
    /\ user = None
    /\ caller = <<None, None>>
    /\ processed_data = Unset
    /\ \E t \in EmissionVals, e \in EmissionVals, d \in EmissionVals :
          emissions = << <<"transport", t>>, <<"electricity", e>>, <<"diet", d>>,
                         <<"total", sumEmissions(t, e, d)>> >>
    /\ recommendations = Unset
    /\ previous_total = None
    /\ explanation = Unset
    /\ result = None
    /\ response = Unset
    /\ store = <<>>
    /\ client = FALSE
    /\ collab = NoCollab
    /\ steps = <<>>

SpecRecommender == InitRecommender /\ [][generate_recommendations]_vars

-----------------------------------------------------------------------------
(* Requests in flight together on the one SupervisorAgent of main.py. Here   *)
(* every per-request variable is a function from the requests in flight to   *)
(* that request's value; store and client are the shared ones. The steps of  *)
(* different requests interleave in any order.                               *)

InFlight == {"r1", "r2"}

\* The routes that run an analysis, the token /calculate is called with and
\* the inputs sent.
AnalysisRoutes == {"analyze", "calculate"}
ConcurrentTokens == {"tokenA"}
ConcurrentRequests == {ScenarioA, RawRequest}

\* A name of the shared instance: assigning it for one request assigns it
\* for all of them.
assignShared(f, r, v) == [x \in DOMAIN f |-> v]

\* A local name of the call serving request r: assigning it leaves the other
\* calls' locals alone.
assignLocal(f, r, v) == [f EXCEPT ![r] = v]

\* The /calculate calls that have not inserted their row yet.
pendingInserts ==
    Cardinality({r \in InFlight : endpoint[r] = "calculate"
                                  /\ pc[r] \notin {"idle", "done"}})

InitConcurrent ==
    /\ pc = [r \in InFlight |-> "idle"]
    /\ endpoint = [r \in InFlight |-> "none"]
    /\ request = [r \in InFlight |-> Unset]
    /\ credential = [r \in InFlight |-> None]
    /\ user = [r \in InFlight |-> None]
    /\ caller = [r \in InFlight |-> <<None, None>>]
    /\ processed_data = [r \in InFlight |-> Unset]
    /\ emissions = [r \in InFlight |-> Unset]
    /\ recommendations = [r \in InFlight |-> Unset]
    /\ previous_total = [r \in InFlight |-> None]
    /\ explanation = [r \in InFlight |-> Unset]
    /\ result = [r \in InFlight |-> None]
    /\ response = [r \in InFlight |-> Unset]
    /\ collab = [r \in InFlight |-> NoCollab]
    /\ steps = [r \in InFlight |-> <<>>]
    /\ store = <<>>
    /\ client \in BOOLEAN

\* POST /analyze or POST /calculate arrives as request r; both call
\* supervisor.analyze(request).
request_arrives(r) ==
    \E ep \in AnalysisRoutes, req \in ConcurrentRequests,
       token \in ConcurrentTokens :
        /\ pc[r] = "idle"
        /\ ep = "calculate" => Len(store) + pendingInserts < MaxStore
        /\ pc' = [pc EXCEPT ![r] = "start"]
        /\ endpoint' = [endpoint EXCEPT ![r] = ep]
        /\ request' = [request EXCEPT ![r] = req]
        /\ credential' = [credential EXCEPT ![r] =
                            IF ep = "calculate" THEN Some(token) ELSE None]
        /\ user' = [user EXCEPT ![r] =
                      IF ep = "calculate"
                      THEN get_user_id_from_token(token).value ELSE None]
        /\ UNCHANGED <<caller, runVars, response, store, client, collab, steps>>

\* Step 1 of request r.
normalize_input_of(r) ==
    /\ pc[r] = "start"
    /\ processed_data' = assignLocal(processed_data, r, InputAgent_process(request[r]))
    /\ pc' = [pc EXCEPT ![r] = "processed"]
    /\ steps' = [steps EXCEPT ![r] = Append(@, "normalize")]
    /\ UNCHANGED <<reqVars, emissions, recommendations, previous_total,
                   explanation, result, response, store, client, collab>>

\* Step 2 of request r.
estimate_emissions_of(r) ==
    /\ pc[r] = "processed"
    /\ emissions' = assignLocal(emissions, r,
                                CarbonEstimationAgent_calculate(processed_data[r]))
    /\ pc' = [pc EXCEPT ![r] = "estimated"]
    /\ steps' = [steps EXCEPT ![r] = Append(@, "estimate")]
    /\ UNCHANGED <<reqVars, processed_data, recommendations, previous_total,
                   explanation, result, response, store, client, collab>>

\* Step 3 of request r.
generate_recommendations_of(r) ==
    /\ pc[r] = "estimated"
    /\ recommendations' =
          assignLocal(recommendations, r,
                      RecommendationAgent_generate(processed_data[r], emissions[r]))
    /\ pc' = [pc EXCEPT ![r] = "recommended"]
    /\ steps' = [steps EXCEPT ![r] = Append(@, "recommend")]
    /\ UNCHANGED <<reqVars, processed_data, emissions, previous_total,
                   explanation, result, response, store, client, collab>>

\* Step 4 of request r: the routes pass no user, so the store is not asked.
fetch_previous_total_of(r) ==
    /\ pc[r] = "recommended"
    /\ previous_total' =
          assignLocal(previous_total, r,
                      _get_previous_total(store, caller[r][1], caller[r][2],
                                          "none").value)
    /\ pc' = [pc EXCEPT ![r] = "fetched"]
    /\ steps' = [steps EXCEPT ![r] = Append(@, "previous_total")]
    /\ UNCHANGED <<reqVars, processed_data, emissions, recommendations,
                   explanation, result, response, store, client, collab>>

\* What the completion call does here: it raises, or returns the text with
\* all four headers.
ConcurrentLlmOutcomes == {LlmRaises, LlmContent(Some(WellFormedText))}

\* Step 5 of request r.
generate_explanation_of(r) ==
    /\ pc[r] = "fetched"
    /\ \E llm \in (IF client THEN ConcurrentLlmOutcomes ELSE {LlmRaises}) :
        /\ explanation' =
              assignLocal(explanation, r,
                          ExplanationAgent_generate(client, emissions[r],
                                                    GetValue(emissions[r], "total"),
                                                    recommendations[r],
                                                    previous_total[r], llm))
        /\ collab' = [collab EXCEPT ![r].llm_called = client, ![r].llm = llm]
    /\ pc' = [pc EXCEPT ![r] = "explained"]
    /\ steps' = [steps EXCEPT ![r] = Append(@, "explanation")]
    /\ UNCHANGED <<reqVars, processed_data, emissions, recommendations,
                   previous_total, result, response, store, client>>

\* return AnalyzeResponse(...) of request r.
return_response_of(r) ==
    /\ pc[r] = "explained"
    /\ result' = [result EXCEPT ![r] =
                     Some(AnalyzeResponse(emissions[r],
                                          GetValue(emissions[r], "total"),
                                          recommendations[r], explanation[r],
                                          caller[r][1]))]
    /\ pc' = [pc EXCEPT ![r] = "returned"]
    /\ steps' = [steps EXCEPT ![r] = Append(@, "return")]
    /\ UNCHANGED <<reqVars, processed_data, emissions, recommendations,
                   previous_total, explanation, response, store, client, collab>>

\* The handler of request r ends: /analyze returns the result, /calculate
\* puts the user id in, inserts the row and returns.
handler_returns(r) ==
    /\ pc[r] = "returned"
    /\ IF endpoint[r] = "analyze"
       THEN /\ response' = [response EXCEPT ![r] =
                               [status |-> 200, body |-> result[r]]]
            /\ UNCHANGED <<store, collab>>
       ELSE \E ins \in {"ok", "exception"} :
            /\ collab' = [collab EXCEPT ![r].insert = ins]
            /\ IF ins = "ok"
               THEN \E resp \in {[result[r][1] EXCEPT !.user_id = user[r]]} :
                    /\ store' = insert(store, persistedRow(store, user[r][1],
                                                           request[r], resp))
                    /\ response' = [response EXCEPT ![r] =
                                       [status |-> 200, body |-> Some(resp)]]
               ELSE /\ response' = [response EXCEPT ![r] =
                                       [status |-> 500, body |-> None]]
                    /\ UNCHANGED store
    /\ pc' = [pc EXCEPT ![r] = "done"]
    /\ UNCHANGED <<reqVars, runVars, client, steps>>

\* The response of request r is sent; r names the next request to arrive.
response_sent(r) ==
    /\ pc[r] = "done"
    /\ pc' = [pc EXCEPT ![r] = "idle"]
    /\ endpoint' = [endpoint EXCEPT ![r] = "none"]
    /\ request' = [request EXCEPT ![r] = Unset]
    /\ credential' = [credential EXCEPT ![r] = None]
    /\ user' = [user EXCEPT ![r] = None]
    /\ processed_data' = [processed_data EXCEPT ![r] = Unset]
    /\ emissions' = [emissions EXCEPT ![r] = Unset]
    /\ recommendations' = [recommendations EXCEPT ![r] = Unset]
    /\ previous_total' = [previous_total EXCEPT ![r] = None]
    /\ explanation' = [explanation EXCEPT ![r] = Unset]
    /\ result' = [result EXCEPT ![r] = None]
    /\ response' = [response EXCEPT ![r] = Unset]
    /\ collab' = [collab EXCEPT ![r] = NoCollab]
    /\ steps' = [steps EXCEPT ![r] = <<>>]
    /\ UNCHANGED <<caller, store, client>>

NextConcurrent ==
    \E r \in InFlight :
        \/ request_arrives(r)
        \/ normalize_input_of(r) \/ estimate_emissions_of(r)
        \/ generate_recommendations_of(r) \/ fetch_previous_total_of(r)
        \/ generate_explanation_of(r) \/ return_response_of(r)
        \/ handler_returns(r) \/ response_sent(r)

SpecConcurrent == InitConcurrent /\ [][NextConcurrent]_vars

-----------------------------------------------------------------------------
(* Properties *)

HasStep(name) == \E i \in 1..Len(steps) : steps[i] = name

CategoryNames == {"transport", "electricity", "diet"}
IndexOf(c) == CHOOSE i \in 1..Len(Categories) : Categories[i] = c

\* c comes before c2 in the ranking: a larger emission, or an equal one and
\* an earlier declaration.
Outranks(em, c, c2) ==
    \/ FLt(GetValue(em, c2), GetValue(em, c))
    \/ GetValue(em, c2) = GetValue(em, c) /\ IndexOf(c) < IndexOf(c2)
RankedFirst(em) ==
    CHOOSE c \in CategoryNames : \A c2 \in CategoryNames \ {c} : Outranks(em, c, c2)
RankedSecond(em) ==
    CHOOSE c \in CategoryNames \ {RankedFirst(em)} :
        \A c2 \in CategoryNames \ {c, RankedFirst(em)} : Outranks(em, c, c2)

\* The category a fallback text names as the largest contributor.
NamedLargest(text) ==
    text[(CHOOSE i \in 1..Len(text) :
             text[i] = Lit("The largest contribution comes from ")) + 1].s

\* The fallback text carries the sentence comparing with the previous total.
HasDeltaSentence(text) ==
    \E i \in 1..Len(text) : text[i] = Lit(" Compared to your previous footprint of ")

\* C1: in every run whose explanation is the fallback, the fallback names as
\* largest contributor the category ranked first by descending emission, ties
\* in declaration order, and the name is one of the three category names.
C1_FallbackNamesTopCategory ==
    HasStep("fallback") =>
        /\ NamedLargest(explanation) \in CategoryNames
        /\ NamedLargest(explanation) = RankedFirst(emissions)

\* C2: meals_per_week is 21 when the raw value is None, and otherwise the raw
\* value floored at 0 (0 stays 0, a negative value becomes 0).
C2_MealsDefaultAndFloor ==
    HasStep("normalize") =>
        LET raw == request.diet.meals_per_week
            meals == processed_data.diet.meals_per_week
        IN  IF raw = None THEN meals = F(21)
            ELSE IF raw[1] < 0 THEN meals = F(0)
            ELSE meals = F(raw[1])

\* clamp(raw, 0, 100), None counted as 0.
Clamped(raw) ==
    IF raw = None THEN 0
    ELSE IF raw[1] < 0 THEN 0
    ELSE IF raw[1] > 100 THEN 100
    ELSE raw[1]

\* C3: the three normalized diet percentages are each in [0, 100] and sum to
\* 100; each is clamp(raw, 0, 100) * 100 / S when the clamped sum S is
\* positive, and the split is 33.33 / 33.33 / 33.34 when S = 0.
C3_DietPercentages ==
    HasStep("normalize") =>
        LET raw == request.diet
            diet == processed_data.diet
            m == Clamped(raw.meat_percentage)
            v == Clamped(raw.vegetarian_percentage)
            g == Clamped(raw.vegan_percentage)
            S == m + v + g
        IN  /\ \A x \in {diet.meat_percentage, diet.vegetarian_percentage,
                         diet.vegan_percentage} : FLe(F(0), x) /\ FLe(x, F(100))
            /\ FAdd(FAdd(diet.meat_percentage, diet.vegetarian_percentage),
                    diet.vegan_percentage) = F(100)
            /\ IF S > 0
               THEN /\ diet.meat_percentage = Frac(m * 100, S)
                    /\ diet.vegetarian_percentage = Frac(v * 100, S)
                    /\ diet.vegan_percentage = Frac(g * 100, S)
               ELSE /\ diet.meat_percentage = Frac(3333, 100)
                    /\ diet.vegetarian_percentage = Frac(3333, 100)
                    /\ diet.vegan_percentage = Frac(3334, 100)

\* A request with an over-100, an in-range and a negative percentage has been
\* normalized to 80 / 20 / 0.
C3_Witness ==
    /\ HasStep("normalize")
    /\ request.diet.meat_percentage = Some(100)
    /\ request.diet.vegetarian_percentage = Some(25)
    /\ request.diet.vegan_percentage = Some(-10)
    /\ processed_data.diet.meat_percentage = F(80)
    /\ processed_data.diet.vegetarian_percentage = F(20)

\* C4: the Recommender returns exactly 3 recommendations: the two templates,
\* in template order, of the category ranked first, then the first template
\* of the category ranked second.
C4_ThreeRecommendations ==
    HasStep("recommend") =>
        LET top == RankedFirst(emissions)
            second == RankedSecond(emissions)
        IN  /\ Len(recommendations) = 3
            /\ recommendations[1].category = top
            /\ recommendations[1].title = templates[top][1][1]
            /\ recommendations[2].category = top
            /\ recommendations[2].title = templates[top][2][1]
            /\ recommendations[3].category = second
            /\ recommendations[3].title = templates[second][1][1]

\* Transport and electricity tie above diet: transport's two templates, then
\* electricity's first.
C4_Witness ==
    /\ HasStep("recommend")
    /\ GetValue(emissions, "transport") = F(78)
    /\ GetValue(emissions, "electricity") = F(78)
    /\ GetValue(emissions, "diet") = F(0)
    /\ recommendations[1].title = "Reduce car usage"
    /\ recommendations[3].title = "Reduce electricity usage"

Within(x, target, tolerance) == FLe(FAbs(FSub(x, target)), tolerance)

\* C5 as stated: Scenario A yields transport 2137.2, electricity 0, diet
\* within 0.01 of 2547.87 and total within 0.01 of 4685.07.
C5_ScenarioA_AsStated ==
    (HasStep("estimate") /\ request = ScenarioA) =>
        /\ GetValue(emissions, "transport") = Frac(21372, 10)
        /\ GetValue(emissions, "electricity") = F(0)
        /\ Within(GetValue(emissions, "diet"), Frac(254787, 100), Frac(1, 100))
        /\ Within(GetValue(emissions, "total"), Frac(468507, 100), Frac(1, 100))

\* C5, amended: Scenario A yields transport 2137.2, electricity 0, diet
\* within 0.01 of 2911.82 and total within 0.01 of 5049.02.
C5_ScenarioA ==
    (HasStep("estimate") /\ request = ScenarioA) =>
        /\ GetValue(emissions, "transport") = Frac(21372, 10)
        /\ GetValue(emissions, "electricity") = F(0)
        /\ Within(GetValue(emissions, "diet"), Frac(291182, 100), Frac(1, 100))
        /\ Within(GetValue(emissions, "total"), Frac(504902, 100), Frac(1, 100))

\* Scenario A has been estimated, from the balanced split.
C5_Witness ==
    /\ HasStep("estimate")
    /\ request = ScenarioA
    /\ processed_data.diet.vegan_percentage = Frac(3334, 100)
    /\ processed_data.diet.meals_per_week = F(21)

\* The completion returned a text with all four headers in it.
WellFormed(llm) ==
    /\ ~llm.raised
    /\ llm.content # None
    /\ \A h \in REQUIRED_HEADERS :
          \E i \in 1..Len(llm.content[1]) : llm.content[1][i] = Lit(h)

\* The deterministic fallback for the values of this run.
FallbackOfRun ==
    _fallback_explanation(emissions, GetValue(emissions, "total"),
                          recommendations, previous_total)

\* C6: analyze never aborts because of a collaborator: whatever the history
\* fetch and the completion call do, it returns a result whose explanation is
\* non-empty, and the explanation is the deterministic fallback unless a
\* client exists and its text is well formed.
C6_AnalyzeNeverAborts ==
    /\ pc # "raised"
    /\ (pc \in {"returned", "done"} /\ HasStep("explanation")) =>
          /\ result # None
          /\ result[1].explanation # <<>>
          /\ IF collab.llm_called /\ WellFormed(collab.llm)
             THEN /\ result[1].explanation # FallbackOfRun
                  /\ \A h \in REQUIRED_HEADERS : Contains(result[1].explanation, h)
             ELSE result[1].explanation = FallbackOfRun
    /\ (pc = "done" /\ endpoint \in {"analyze", "supervisor"}) =>
          /\ response.status = 200
          /\ response.body = result

\* The history fetch and the completion call both raised, and analyze
\* returned the fallback.
C6_Witness ==
    /\ pc = "done"
    /\ endpoint = "supervisor"
    /\ collab.hist = "exception"
    /\ collab.llm_called
    /\ collab.llm = LlmRaises
    /\ response.status = 200
    /\ response.body[1].explanation = FallbackOfRun

\* C7: the fallback carries the delta sentence if and only if a previous
\* total is available, whatever its value, 0 included.
C7_DeltaIffPrevious ==
    HasStep("fallback") =>
        (HasDeltaSentence(explanation) <=> previous_total # None)

\* The stored input equals the normalized request, field by field.
SameNumber(raw, normalized) == raw # None /\ F(raw[1]) = normalized
StoredIsNormalized(d, pd) ==
    /\ SameNumber(d.transport.car_miles_per_week, pd.transport.car_miles_per_week)
    /\ SameNumber(d.transport.public_transit_trips_per_week,
                  pd.transport.public_transit_trips_per_week)
    /\ SameNumber(d.transport.flights_per_year, pd.transport.flights_per_year)
    /\ SameNumber(d.electricity.monthly_kwh, pd.electricity.monthly_kwh)
    /\ d.electricity.energy_source # None
    /\ d.electricity.energy_source[1] = pd.electricity.energy_source
    /\ SameNumber(d.diet.meals_per_week, pd.diet.meals_per_week)
    /\ SameNumber(d.diet.meat_percentage, pd.diet.meat_percentage)
    /\ SameNumber(d.diet.vegetarian_percentage, pd.diet.vegetarian_percentage)
    /\ SameNumber(d.diet.vegan_percentage, pd.diet.vegan_percentage)

\* /calculate answered 200: it has just inserted the last row.
Persisted == pc = "done" /\ endpoint = "calculate" /\ response.status = 200

\* C8 as stated: the record /calculate writes holds the assembled result and
\* the normalized request, keyed by the user id of the credential.
C8_AsStated ==
    Persisted =>
        LET row == store[Len(store)]
        IN  /\ row.user_id = jwt_decode(credential[1]).value.sub[1]
            /\ row.ai_output = [result[1] EXCEPT !.user_id = Some(row.user_id)]
            /\ row.ai_output = response.body[1]
            /\ StoredIsNormalized(row.input_data, processed_data)

\* C8, amended: the record /calculate writes holds the assembled result, with
\* the user id in it, and the request as it was received, keyed by the user
\* id of the credential.
C8_PersistedRecord ==
    Persisted =>
        LET row == store[Len(store)]
        IN  /\ row.user_id = jwt_decode(credential[1]).value.sub[1]
            /\ row.ai_output = [result[1] EXCEPT !.user_id = Some(row.user_id)]
            /\ row.ai_output = response.body[1]
            /\ row.input_data = request

\* A request with null, negative and out-of-range fields has been persisted.
C8_Witness ==
    /\ Persisted
    /\ request = RawRequest
    /\ store[Len(store)].user_id = "userB"
    /\ store[Len(store)].input_data.transport.car_miles_per_week = Some(-5)

\* s equals the word, ignoring case.
EqualsIgnoringCase(s, lowerWord, upperWord) ==
    /\ Len(s) = Len(lowerWord)
    /\ \A i \in 1..Len(s) : s[i] \in {lowerWord[i], upperWord[i]}

\* C9: electricity = max(0, monthly_kwh) * 12 * factor, the factor 0.05 for
\* "solar" and 0.02 for "wind", ignoring case, and 0.5 for any other source,
\* None and "" included.
C9_ElectricityFactor ==
    HasStep("estimate") =>
        LET raw == request.electricity
            kwh == IF raw.monthly_kwh = None THEN 0
                   ELSE IF raw.monthly_kwh[1] < 0 THEN 0
                   ELSE raw.monthly_kwh[1]
            src == IF raw.energy_source = None THEN <<>> ELSE raw.energy_source[1]
            factor ==
                IF EqualsIgnoringCase(src, SOLAR, <<"S", "O", "L", "A", "R">>)
                THEN Frac(5, 100)
                ELSE IF EqualsIgnoringCase(src, WIND, <<"W", "I", "N", "D">>)
                THEN Frac(2, 100)
                ELSE Frac(5, 10)
        IN  GetValue(emissions, "electricity") = Frac(kwh * 12 * factor.n, factor.d)

\* Scenario C: 1000 kWh of "Solar" gives 600.
C9_Witness ==
    /\ HasStep("estimate")
    /\ request.electricity.monthly_kwh = Some(1000)
    /\ request.electricity.energy_source = Some(<<"S", "o", "l", "a", "r">>)
    /\ GetValue(emissions, "electricity") = F(600)

\* C10: the three emissions are each >= 0, and the total of the returned
\* result is their sum.
C10_NonNegativeAndSum ==
    /\ HasStep("estimate") =>
          \A c \in CategoryNames : FLe(F(0), GetValue(emissions, c))
    /\ (pc = "done" /\ response.status = 200) =>
          LET body == response.body[1]
              t == GetValue(body.category_emissions, "transport")
              e == GetValue(body.category_emissions, "electricity")
              d == GetValue(body.category_emissions, "diet")
          IN  /\ FLe(F(0), t) /\ FLe(F(0), e) /\ FLe(F(0), d)
              /\ body.total_carbon_footprint = FAdd(FAdd(t, e), d)
              /\ body.category_emissions
                    = SubSeq(emissions, 1, 3)

\* A request with negative car miles and a positive footprint was answered.
C10_Witness ==
    /\ pc = "done"
    /\ response.status = 200
    /\ request.transport.car_miles_per_week = Some(-5)
    /\ request.electricity.monthly_kwh = Some(1000)
    /\ FLt(F(0), response.body[1].total_carbon_footprint)

\* The user id in the token the handler was given.
CredentialUser == jwt_decode(credential[1]).value.sub[1]

\* C11: the store changes only through /calculate. A step that changes the
\* store is the end of a /calculate call answering 200, and it adds exactly
\* one row, holding the result it returns, for the user of the credential; a
\* /calculate call that ends with 200 has added that row, one that ends with
\* an error has added none, and /analyze and /history change nothing. (An
\* insert that raises is taken to have written nothing.)
C11_StoreFrame ==
    [][ /\ store' # store =>
            /\ endpoint = "calculate"
            /\ pc = "returned"
            /\ pc' = "done"
            /\ response'.status = 200
            /\ Len(store') = Len(store) + 1
            /\ SubSeq(store', 1, Len(store)) = store
            /\ store'[Len(store')].ai_output = response'.body[1]
            /\ store'[Len(store')].user_id = CredentialUser
        /\ (pc # "done" /\ pc' = "done" /\ endpoint' = "calculate") =>
            IF response'.status = 200
            THEN Len(store') = Len(store) + 1
            ELSE store' = store
        /\ (pc # "done" /\ pc' = "done" /\ endpoint' # "calculate") =>
            store' = store
      ]_vars

\* A /calculate call whose insert raised has answered 500 and left the row
\* of an earlier call alone.
C11_Witness ==
    /\ pc = "done"
    /\ endpoint = "calculate"
    /\ collab.insert = "exception"
    /\ response.status = 500
    /\ Len(store) = 1

\* What a run on req alone computes.
SoloProcessed(req) == InputAgent_process(req)
SoloEmissions(req) == CarbonEstimationAgent_calculate(SoloProcessed(req))
SoloRecommendations(req) ==
    RecommendationAgent_generate(SoloProcessed(req), SoloEmissions(req))

\* C12: however the steps of the requests in flight interleave, the total,
\* the category emissions and the recommendations a request gets are those
\* of a run on its input alone.
C12_ResultsAsSolo ==
    \A r \in InFlight :
        /\ pc[r] \in {"returned", "done"} =>
            /\ result[r] # None
            /\ result[r][1].total_carbon_footprint
                  = GetValue(SoloEmissions(request[r]), "total")
            /\ result[r][1].category_emissions
                  = SubSeq(SoloEmissions(request[r]), 1, 3)
            /\ result[r][1].top_recommendations
                  = SoloRecommendations(request[r])
        /\ (pc[r] = "done" /\ response[r].status = 200) =>
            /\ response[r].body[1].total_carbon_footprint
                  = result[r][1].total_carbon_footprint
            /\ response[r].body[1].category_emissions
                  = result[r][1].category_emissions
            /\ response[r].body[1].top_recommendations
                  = result[r][1].top_recommendations

\* Two requests with different inputs are in flight, one answered while the
\* other is between its steps.
C12_Witness ==
    /\ pc["r1"] = "done"
    /\ endpoint["r1"] = "calculate"
    /\ request["r1"] = ScenarioA
    /\ response["r1"].status = 200
    /\ pc["r2"] = "recommended"
    /\ endpoint["r2"] = "analyze"
    /\ request["r2"] = RawRequest

\* C13: an analysis started by /analyze or /calculate is run without a user
\* id and a token: the store is never asked for the history, the previous
\* total is None, and the fallback has no delta sentence, whatever rows the
\* store holds for the user.
C13_ApiRunsWithoutHistory ==
    endpoint \in {"analyze", "calculate"} =>
        /\ caller = <<None, None>>
        /\ ~HasStep("history_fetch")
        /\ collab.hist = "none"
        /\ previous_total = None
        /\ HasStep("fallback") => ~HasDeltaSentence(explanation)

\* /calculate has answered a user whose earlier row, with a positive total,
\* was in the store during the run, and the text is the fallback.
C13_Witness ==
    /\ Persisted
    /\ HasStep("fallback")
    /\ Len(store) = 2
    /\ store[1].user_id = store[2].user_id
    /\ FLt(F(0), store[1].ai_output.total_carbon_footprint)

\* The token /calculate was given does not decode, or has no sub.
BadToken == get_user_id_from_token(credential[1]).raised

\* C14: a /calculate request whose token cannot be decoded or carries no user
\* id is answered with status 401, and nothing is analysed or written.
C14_BadTokenIs401 ==
    (pc = "done" /\ endpoint = "calculate" /\ BadToken) =>
        /\ response.status = 401
        /\ steps = <<>>
        /\ result = None
        /\ collab.insert = "none"

\* What does hold for such a request: nothing is analysed or written, and
\* the answer is an error.
C14_BadTokenRunsNothing ==
    (pc = "done" /\ endpoint = "calculate" /\ BadToken) =>
        /\ response.status # 200
        /\ response.body = None
        /\ steps = <<>>
        /\ result = None
        /\ collab.insert = "none"

IsPrefix(a, b) == Len(a) <= Len(b) /\ a = SubSeq(b, 1, Len(a))
Count(name) == Cardinality({i \in 1..Len(steps) : steps[i] = name})

\* The steps of a whole run, given who called and what the completion did.
ExpectedSteps ==
    <<"normalize", "estimate", "recommend", "previous_total">>
        \o (IF caller[1] # None /\ caller[1][1] # "" /\ caller[2] # None
               /\ caller[2][1] # ""
            THEN <<"history_fetch">> ELSE <<>>)
        \o <<"explanation">>
        \o (IF client THEN <<"llm_call">> ELSE <<>>)
        \o (IF client /\ WellFormed(collab.llm) THEN <<>> ELSE <<"fallback">>)
        \o <<"return">>

\* C15: within one run of analyze the steps come in the order normalize,
\* estimate, recommend, history lookup, explanation; the store and the
\* completion are each asked at most once; a failed lookup gives None and a
\* failed completion gives the fallback, with no second attempt.
C15_StepOrderNoRetry ==
    /\ IsPrefix(steps, ExpectedSteps)
    /\ HasStep("return") => steps = ExpectedSteps
    /\ Count("history_fetch") <= 1
    /\ Count("llm_call") <= 1
    /\ (HasStep("history_fetch") /\ collab.hist = "exception") =>
          previous_total = None
    /\ (HasStep("llm_call") /\ ~WellFormed(collab.llm)) =>
          /\ HasStep("fallback")
          /\ explanation = FallbackOfRun

\* A run in which the query raised and the completion lacked two headers,
\* each asked once.
C15_Witness ==
    /\ pc = "returned"
    /\ collab.hist = "exception"
    /\ collab.llm = LlmContent(Some(PartialText))
    /\ steps = <<"normalize", "estimate", "recommend", "previous_total",
                 "history_fetch", "explanation", "llm_call", "fallback",
                 "return">>

====
